---------------------------- MODULE Spec2Model ----------------------------
(***************************************************************************)
(* The MapView component (components/MapView, the variant with live        *)
(* position tracking and clustering) as a state machine.                   *)
(*                                                                         *)
(* React state hooks are the variables; one action per callback / effect.  *)
(* A setState batch and the re-render it causes are one step; the passive  *)
(* effect that React schedules after a render whose dependency list        *)
(* changed is a separate, later step (RunEffect), so callbacks registered  *)
(* by the previous effect instance may still fire in between, with the     *)
(* values their closure captured.                                          *)
(*                                                                         *)
(* Coordinates are integers in units of 1e-4 degree.                       *)
(***************************************************************************)
EXTENDS Integers, Sequences, FiniteSets, TLC

\* ---------------------------------------------------------------- bounds
MaxRuns == 2
ViewportPx == 1024

\* ------------------------------------------------------- JavaScript values
\* JS values are tagged records, so that values of different JS types compare.
Null == [t |-> "null"]
Undefined == [t |-> "undefined"]
Num(n) == [t |-> "num", v |-> n]
Str(s) == [t |-> "str", v |-> s]

\* JS ToBoolean.
Truthy(v) ==
    /\ v \notin {Null, Undefined, Num(0), Str("")}
    /\ v # [t |-> "bool", v |-> FALSE]

\* JS loose inequality with null: `v != null` (false for null and undefined).
NotNullish(v) == v \notin {Null, Undefined}

Max(a, b) == IF a >= b THEN a ELSE b
Min(a, b) == IF a <= b THEN a ELSE b

Pow2(n) == IF n <= 0 THEN 1 ELSE 2 ^ n

\* ------------------------------------------------------ program constants
DefaultLongitude == -740060
DefaultLatitude == 407128
DefaultViewZoom == 12
InitialZoom == 16
MobileZoom == 16
DesktopZoom == 14
FocusZoom == 16
ClusterRadius == 75
ClusterMaxZoom == 20
MaxExpansionZoom == 20

MsgDenied == Str("Location access denied. Please enable it in your browser settings.")
MsgUnavailable == Str("Location information is unavailable.")
MsgTimeout == Str("The request to get user location timed out.")
MsgDefault == Str("Could not get your location.")
MsgUnsupported == Str("Geolocation is not supported by this browser.")

\* GeolocationPositionError codes.
PERMISSION_DENIED == "PERMISSION_DENIED"
POSITION_UNAVAILABLE == "POSITION_UNAVAILABLE"
TIMEOUT == "TIMEOUT"
ErrorCodes == {PERMISSION_DENIED, POSITION_UNAVAILABLE, TIMEOUT}

\* ------------------------------------------------------------ input sets
\* Firestore documents of the "issues" collection: doc.id and the fields of
\* doc.data() that the component reads.  A document's location may be absent,
\* or carry a null lat or lng; createdAt is null while a server timestamp is
\* pending.  Document "a" lies at (40.0, -74.0); document "b" lies 0.01 degree
\* east of it, or (DocAt) at the same place as "a", or at (0, 0).
DocLat(id) == 400000
DocLng(id) == IF id = "a" THEN -740000 ELSE -739900
Timestamp == [t |-> "timestamp"]
Location(lat, lng) == [t |-> "obj", lat |-> lat, lng |-> lng]

Doc(id, location, createdAt) == [id |-> id, data |-> [location |-> location, createdAt |-> createdAt]]
DocOk(id) == Doc(id, Location(Num(DocLat(id)), Num(DocLng(id))), Timestamp)
DocAt(id, lat, lng) == Doc(id, Location(Num(lat), Num(lng)), Timestamp)
DocLatNull(id) == Doc(id, Location(Null, Num(DocLng(id))), Timestamp)
DocLngNull(id) == Doc(id, Location(Num(DocLat(id)), Null), Timestamp)
DocNoLocation(id) == Doc(id, Undefined, Timestamp)
DocNoCreatedAt(id) == Doc(id, Location(Num(DocLat(id)), Num(DocLng(id))), Null)

\* The query snapshots the listener may deliver: the documents of the
\* collection in order, each id at most once.
Snapshots ==
    { <<>>,
      <<DocOk("a")>>, <<DocAt("b", 0, 0)>>,
      <<DocLatNull("a")>>, <<DocLngNull("a")>>, <<DocNoLocation("a")>>, <<DocNoCreatedAt("a")>>,
      <<DocOk("a"), DocOk("b")>>, <<DocOk("b"), DocOk("a")>>,
      <<DocOk("a"), DocAt("b", DocLat("a"), DocLng("a"))>>,
      <<DocLatNull("a"), DocAt("b", 0, 0)>>, <<DocOk("a"), DocLatNull("b")>>,
      <<DocAt("b", 0, 0), DocNoCreatedAt("a")>>, <<DocNoLocation("b"), DocOk("a")>> }

\* Position samples the device may deliver (position.coords).
Positions == { [latitude |-> 400000, longitude |-> -739950] }

\* View states a user gesture (or a fly-to animation) may report through onMove.
MoveViews ==
    { [longitude |-> -740000, latitude |-> 400000, zoom |-> 18],
      [longitude |-> -739950, latitude |-> 400000, zoom |-> 12] }

\* The handle of the first watch a browser session registers: handles count
\* up from it.
FirstHandles == {0, 1}

VARIABLES
    mounted,              \* the component is mounted
    geoSupported,         \* navigator.geolocation is defined in this browser
    handleBase,           \* the handle the browser gives the first watch
    runs,                 \* number of times the effect has run (watch handles and listeners are numbered by it)
    issues,               \* useState<Issue[]>
    selectedIssue,        \* useState<Issue | null>
    currentUserPosition,  \* useState<{latitude, longitude} | null>
    isInitialLoad,        \* useState(true)
    locationError,        \* useState<string | null>
    bounds,               \* useState<[w,s,e,n] | undefined>
    zoom,                 \* useState(16)
    viewState,            \* useState({longitude, latitude, zoom})
    isMobile,             \* useIsMobile()
    mapLoaded,            \* the <Map> has fired onLoad
    flyTo,                \* the mapRef.current.flyTo command issued by the step just taken, or Undefined
    thrown,               \* the error the handler of the step just taken threw, or Undefined
    calls,                \* the state setters the step just taken called on the mounted component
    traced,               \* whether calls is kept; constant, set by the specification (see TracedSpec)
    effDeps,              \* dependency list of the effect instance in force, or Undefined
    watchId,              \* `let watchId` of the effect instance in force
    unsubscribe,          \* `const unsubscribe` of the effect instance in force
    watches,              \* browser: registered position watches, with their callbacks' closures
    feeds,                \* Firestore: attached snapshot listeners
    cancelled,            \* subscriptions on which an effect cleanup has called cancel
    lastSnapLen,          \* number of documents in the snapshot last delivered to the component (-1: none yet)
    lastSnapValid,        \* the valid records (id, lat, lng) of that snapshot, in order
    posEventSeen,         \* a position sample or failure has been processed, or geolocation found unsupported
    dashboard,            \* the DashboardPage component (app/dashboard/page.tsx): its hooks, effects and listeners
    myReports,            \* the MyReportsPage component: its hooks, its listener and the delete requests in flight
    reportForm,           \* the ReportForm component: its hooks and the executions of onSubmit
    layout                \* the DashboardLayout component: what useAuth() returns, its effect and the router

hookVars == <<issues, selectedIssue, currentUserPosition, isInitialLoad, locationError>>
camVars == <<bounds, zoom, viewState, mapLoaded>>
effVars == <<effDeps, watchId, unsubscribe>>
envVars == <<watches, feeds, cancelled>>
histVars == <<posEventSeen, lastSnapLen, lastSnapValid>>
mapVars == <<mounted, geoSupported, handleBase, runs, isMobile, hookVars, camVars, flyTo, thrown, calls, traced, effVars, envVars, histVars>>
pageVars == <<dashboard, myReports, reportForm, layout>>
vars == <<mapVars, pageVars>>

\* ------------------------------------------------ pure parts of the component
DepsAre(init, mobile) == [t |-> "deps", isInitialLoad |-> init, isMobile |-> mobile]

\* Mutant of KeepsDoc: tests the truthiness of lat and lng, which drops a
\* record on the equator or on the prime meridian.
KeepsDocTruthyCoords(data) ==
    /\ Truthy(data.location)
    /\ Truthy(data.location.lat)
    /\ Truthy(data.location.lng)
    /\ Truthy(data.createdAt)

\* The test of the onSnapshot callback:
\*   data.location && data.location.lat != null && data.location.lng != null && data.createdAt
KeepsDoc(data) ==
    /\ Truthy(data.location)
    /\ NotNullish(data.location.lat)
    /\ NotNullish(data.location.lng)
    /\ Truthy(data.createdAt)

\* { id: doc.id, ...data } as Issue
IssueOf(doc) == [t |-> "obj", id |-> doc.id, location |-> doc.data.location, createdAt |-> doc.data.createdAt]

\* querySnapshot.forEach(doc => { if (...) issuesData.push(...) })
RECURSIVE IssuesData(_)
IssuesData(snap) ==
    IF snap = <<>> THEN <<>>
    ELSE LET rest == IssuesData(Tail(snap))
         IN IF KeepsDoc(Head(snap).data) THEN <<IssueOf(Head(snap))>> \o rest ELSE rest

\* points = issues.map(issue => ({properties: {cluster: false, issueId, issue}, geometry: [lng, lat]}))
PointOf(issue) ==
    [cluster |-> FALSE, issueId |-> issue.id, issue |-> issue,
     lng |-> issue.location.lng.v, lat |-> issue.location.lat.v]

Points(iss) == [i \in 1 .. Len(iss) |-> PointOf(iss[i])]

\* map.getBounds().toArray().flat() for a camera at view state vs: a square
\* viewport of ViewportPx pixels on 512-pixel tiles.
\* 360 degrees = 3600000 units span 512 * 2^z pixels; 3600000 / 1024 = 28125 / 8.
HalfSpan(z) == (ViewportPx * 28125) \div (8 * Pow2(z))

BoundsOf(vs) ==
    [t |-> "arr",
     west |-> vs.longitude - HalfSpan(vs.zoom), south |-> vs.latitude - HalfSpan(vs.zoom),
     east |-> vs.longitude + HalfSpan(vs.zoom), north |-> vs.latitude + HalfSpan(vs.zoom)]

InBounds(p, b) == b.west <= p.lng /\ p.lng <= b.east /\ b.south <= p.lat /\ p.lat <= b.north

\* The clustering radius (options.radius pixels on 512-pixel tiles) in
\* coordinate units at zoom z.
RadiusAt(z) == (ClusterRadius * 28125) \div (4 * Pow2(z))

Abs(x) == IF x < 0 THEN -x ELSE x
Near(p, q, z) == Abs(p.lng - q.lng) <= RadiusAt(z) /\ Abs(p.lat - q.lat) <= RadiusAt(z)

\* Greedy grouping in point order: each point not yet grouped takes every
\* later ungrouped point within the radius; above options.maxZoom nothing merges.
RECURSIVE Group(_, _, _)
Group(pts, z, done) ==
    LET free == { i \in 1 .. Len(pts) : i \notin done }
    IN IF free = {} THEN <<>>
       ELSE LET i == CHOOSE k \in free : \A m \in free : k <= m
                members == IF z > ClusterMaxZoom THEN {i}
                           ELSE { m \in free : Near(pts[i], pts[m], z) }
                n == Cardinality(members)
                sumLng == LET RECURSIVE S(_)
                              S(ms) == IF ms = {} THEN 0
                                       ELSE LET m == CHOOSE x \in ms : TRUE
                                            IN pts[m].lng + S(ms \ {m})
                          IN S(members)
                sumLat == LET RECURSIVE S(_)
                              S(ms) == IF ms = {} THEN 0
                                       ELSE LET m == CHOOSE x \in ms : TRUE
                                            IN pts[m].lat + S(ms \ {m})
                          IN S(members)
                c == IF n = 1 THEN pts[i]
                     ELSE [cluster |-> TRUE, id |-> i, point_count |-> n,
                           members |-> { pts[m].issueId : m \in members },
                           lng |-> sumLng \div n, lat |-> sumLat \div n]
            IN <<c>> \o Group(pts, z, done \cup members)

\* supercluster.getClusterExpansionZoom(cluster.id): the lowest zoom above the
\* queried one at which the cluster's members are no longer one cluster; at
\* most options.maxZoom + 1, where nothing is clustered.
RECURSIVE ExpansionFrom(_, _, _)
ExpansionFrom(pts, members, z) ==
    IF z > ClusterMaxZoom THEN z
    ELSE LET g == Group(pts, z, {})
         IN IF \E k \in 1 .. Len(g) : g[k].cluster /\ g[k].members = members
            THEN ExpansionFrom(pts, members, z + 1)
            ELSE z

GetClusterExpansionZoom(pts, c, z) == ExpansionFrom(pts, c.members, z + 1)

\* Mutant of Clusters: the query ignores the bounds.
ClustersIgnoringBounds(pts, b, z) == Group(pts, z, {})

\* useSupercluster({points, bounds, zoom, options: {radius: 75, maxZoom: 20}}).clusters:
\* empty until bounds are known, then the clusters inside the bounds.
Clusters(pts, b, z) ==
    IF b = Undefined THEN <<>>
    ELSE SelectSeq(Group(pts, z, {}), LAMBDA c : InBounds(c, b))

\* What the specification calls a valid record: a location with non-null
\* latitude and longitude, and a creation timestamp.
ValidRecord(doc) ==
    /\ doc.data.location # Undefined
    /\ doc.data.location.lat # Null
    /\ doc.data.location.lng # Null
    /\ doc.data.createdAt # Null

ValidRecords(snap) == SelectSeq(snap, ValidRecord)
RecordKeys(snap) ==
    [i \in 1 .. Len(snap) |-> <<snap[i].id, snap[i].data.location.lat.v, snap[i].data.location.lng.v>>]

\* ------------------------------------------------------------- rendering
\* Mutant of Gate: waits until a position is known, whatever the errors.
GateUntilPosition == ~Truthy(currentUserPosition)

\* Mutant of Gate: the negation of locationError is lost.
GateNegationLost == isInitialLoad /\ Truthy(locationError)

\* The loading gate: `if (isInitialLoad && !locationError) return <Loader/>`.
Gate == isInitialLoad /\ ~Truthy(locationError)

\* What the component renders in the current state.
RenderSet ==
    IF ~mounted THEN
        [loader |-> FALSE, map |-> FALSE, banner |-> Null, clusters |-> <<>>,
         userMarker |-> Null, popup |-> Null, emptyState |-> FALSE]
    ELSE IF Gate THEN
        [loader |-> TRUE, map |-> FALSE, banner |-> Null, clusters |-> <<>>,
         userMarker |-> Null, popup |-> Null, emptyState |-> FALSE]
    ELSE
        [loader |-> FALSE, map |-> TRUE,
         banner |-> IF Truthy(locationError) THEN locationError ELSE Null,
         clusters |-> Clusters(Points(issues), bounds, zoom),
         userMarker |-> IF Truthy(currentUserPosition) THEN currentUserPosition ELSE Null,
         popup |-> IF Truthy(selectedIssue) THEN selectedIssue ELSE Null,
         emptyState |-> (Len(issues) = 0 /\ ~isInitialLoad)]

\* ------------------------------------------------------------------ Init
\* A page that is not on screen: the routes /dashboard/map (MapView) and
\* /dashboard (DashboardPage) are different pages.
DashboardAbsent ==
    [mounted |-> FALSE, geoSupported |-> FALSE, backend |-> <<>>, users |-> {}, positionRequest |-> "none",
     localIssues |-> <<>>, localIssuesRef |-> 0, leaderboard |-> <<>>, userPosition |-> Null,
     loading |-> TRUE, error |-> Null, effDeps |-> Undefined, listeners |-> {}, subscribes |-> 0,
     thrown |-> Undefined]

MyReportsAbsent ==
    [mounted |-> FALSE, user |-> Null, backend |-> <<>>, listener |-> "none", snapshotDue |-> FALSE,
     issues |-> <<>>, loading |-> TRUE, isDeleting |-> Null, requests |-> <<>>, toast |-> Undefined]

ReportFormAbsent ==
    [mounted |-> FALSE, user |-> Null, userProfile |-> Null, isSubmitting |-> FALSE, execs |-> <<>>,
     writes |-> <<>>, route |-> "/dashboard/report", toast |-> Undefined]

LayoutAbsent ==
    [mounted |-> FALSE, loading |-> TRUE, user |-> Null, isMobile |-> FALSE, effDeps |-> Undefined,
     route |-> "/dashboard", push |-> Undefined]

PagesAbsent ==
    /\ dashboard = DashboardAbsent
    /\ myReports = MyReportsAbsent
    /\ reportForm = ReportFormAbsent
    /\ layout = LayoutAbsent

\* The component right after its first render.
Mounting ==
    /\ PagesAbsent
    /\ mounted = TRUE
    /\ geoSupported \in BOOLEAN
    /\ handleBase \in FirstHandles
    /\ runs = 0
    /\ issues = <<>>
    /\ selectedIssue = Null
    /\ currentUserPosition = Null
    /\ isInitialLoad = TRUE
    /\ locationError = Null
    /\ bounds = Undefined
    /\ zoom = InitialZoom
    /\ viewState = [longitude |-> DefaultLongitude, latitude |-> DefaultLatitude, zoom |-> DefaultViewZoom]
    /\ isMobile = FALSE
    /\ mapLoaded = FALSE
    /\ flyTo = Undefined
    /\ thrown = Undefined
    /\ calls = {}
    /\ effDeps = Undefined
    /\ watchId = Undefined
    /\ unsubscribe = Undefined
    /\ watches = {}
    /\ feeds = {}
    /\ cancelled = {}
    /\ posEventSeen = FALSE
    /\ lastSnapLen = -1
    /\ lastSnapValid = <<>>

Init == Mounting /\ traced = FALSE

\* A step whose handler called the setters S and returned normally.
Called(S) ==
    /\ calls' = IF traced THEN S ELSE {}
    /\ traced' = traced
    /\ thrown' = Undefined
    /\ UNCHANGED pageVars

\* ------------------------------------------------- effect: subscribe / cleanup
WatchToken(h) == [kind |-> "watch", id |-> h]
FeedToken(f) == [kind |-> "feed", id |-> f]

\* navigator.geolocation.clearWatch(id): the watch is removed; an id that names
\* no registered watch is ignored.
ClearWatch(ws, id) == { w \in ws : w.id # id }

\* The function onSnapshot returned: the listener is detached; detaching a
\* listener that is no longer attached does nothing.
Detach(fs, f) == fs \ {f}

\* Mutant of CleanupFeeds: the cleanup names unsubscribe without calling it.
CleanupFeedsNotCalled(fs, unsub) == fs

\* The effect's cleanup, `() => { unsubscribe(); if (watchId) clearWatch(watchId) }`,
\* applied to the registered watches and attached listeners.
CleanupWatches(ws, wid) == IF Truthy(wid) THEN ClearWatch(ws, wid.v) ELSE ws
CleanupFeeds(fs, unsub) == Detach(fs, unsub.v)

\* The subscriptions on which that cleanup calls cancel.
CancelCalls(wid, unsub) ==
    {FeedToken(unsub.v)} \cup (IF Truthy(wid) THEN {WatchToken(wid.v)} ELSE {})

\* The effect `useEffect(() => {...}, [isInitialLoad, isMobile])`: React runs it
\* after the first render and after every render in which a dependency
\* changed, first running the cleanup of the instance it replaces.
EffectPending == mounted /\ effDeps # DepsAre(isInitialLoad, isMobile)

\* Mutant of RunEffect: the effect shows the loader again while it subscribes.
RunEffectRestartsLoading ==
    /\ flyTo' = Undefined
    /\ Called(IF geoSupported THEN {"setIsInitialLoad"} ELSE {"setLocationError", "setIsInitialLoad"})
    /\ EffectPending
    /\ runs < MaxRuns
    /\ runs' = runs + 1
    /\ LET first == effDeps = Undefined
           ws1 == IF first THEN watches ELSE CleanupWatches(watches, watchId)
           fs1 == IF first THEN feeds ELSE CleanupFeeds(feeds, unsubscribe)
           cc1 == IF first THEN cancelled ELSE cancelled \cup CancelCalls(watchId, unsubscribe)
           f == runs
           h == handleBase + runs
       IN /\ feeds' = fs1 \cup {f}
          /\ unsubscribe' = Num(f)
          /\ cancelled' = cc1
          /\ IF geoSupported
             THEN /\ watches' = ws1 \cup { [id |-> h, isInitialLoad |-> isInitialLoad, isMobile |-> isMobile] }
                  /\ watchId' = Num(h)
                  /\ isInitialLoad' = TRUE
                  /\ UNCHANGED <<locationError, posEventSeen>>
             ELSE /\ watches' = ws1
                  /\ watchId' = Undefined
                  /\ locationError' = MsgUnsupported
                  /\ isInitialLoad' = FALSE
                  /\ posEventSeen' = TRUE
    /\ effDeps' = DepsAre(isInitialLoad, isMobile)
    /\ UNCHANGED <<mounted, geoSupported, handleBase, isMobile, issues, selectedIssue, currentUserPosition,
                   camVars, lastSnapLen, lastSnapValid>>

\* The model lets the effect run at most MaxRuns times.
RunEffect ==
    /\ flyTo' = Undefined
    /\ Called(IF geoSupported THEN {} ELSE {"setLocationError", "setIsInitialLoad"})
    /\ EffectPending
    /\ runs < MaxRuns
    /\ runs' = runs + 1
    /\ LET first == effDeps = Undefined
           ws1 == IF first THEN watches ELSE CleanupWatches(watches, watchId)
           fs1 == IF first THEN feeds ELSE CleanupFeeds(feeds, unsubscribe)
           cc1 == IF first THEN cancelled ELSE cancelled \cup CancelCalls(watchId, unsubscribe)
           f == runs
           h == handleBase + runs
       IN /\ feeds' = fs1 \cup {f}
          /\ unsubscribe' = Num(f)
          /\ cancelled' = cc1
          /\ IF geoSupported
             THEN /\ watches' = ws1 \cup { [id |-> h, isInitialLoad |-> isInitialLoad, isMobile |-> isMobile] }
                  /\ watchId' = Num(h)
                  /\ UNCHANGED <<locationError, isInitialLoad, posEventSeen>>
             ELSE /\ watches' = ws1
                  /\ watchId' = Undefined
                  /\ locationError' = MsgUnsupported
                  /\ isInitialLoad' = FALSE
                  /\ posEventSeen' = TRUE
    /\ effDeps' = DepsAre(isInitialLoad, isMobile)
    /\ UNCHANGED <<mounted, geoSupported, handleBase, isMobile, issues, selectedIssue, currentUserPosition,
                   camVars, lastSnapLen, lastSnapValid>>

\* Component unmount: React runs the cleanup of the effect instance in force
\* and discards the component's state.
Unmount ==
    /\ mounted
    /\ mounted' = FALSE
    /\ IF effDeps = Undefined
       THEN UNCHANGED envVars
       ELSE /\ watches' = CleanupWatches(watches, watchId)
            /\ feeds' = CleanupFeeds(feeds, unsubscribe)
            /\ cancelled' = cancelled \cup CancelCalls(watchId, unsubscribe)
    /\ issues' = <<>>
    /\ selectedIssue' = Null
    /\ currentUserPosition' = Null
    /\ isInitialLoad' = TRUE
    /\ locationError' = Null
    /\ bounds' = Undefined
    /\ zoom' = InitialZoom
    /\ viewState' = [longitude |-> DefaultLongitude, latitude |-> DefaultLatitude, zoom |-> DefaultViewZoom]
    /\ mapLoaded' = FALSE
    /\ flyTo' = Undefined
    /\ Called({})
    /\ isMobile' = FALSE
    /\ effDeps' = Undefined
    /\ watchId' = Undefined
    /\ unsubscribe' = Undefined
    /\ posEventSeen' = FALSE
    /\ lastSnapLen' = -1
    /\ lastSnapValid' = <<>>
    /\ UNCHANGED <<geoSupported, handleBase, runs>>

\* useIsMobile(): the viewport crosses the mobile breakpoint.
Resize ==
    /\ flyTo' = Undefined
    /\ Called({})
    /\ mounted
    /\ runs + (IF EffectPending THEN 1 ELSE 0) < MaxRuns
    /\ isMobile' = ~isMobile
    /\ UNCHANGED <<mounted, geoSupported, handleBase, runs, hookVars, camVars, effVars, envVars, histVars>>

\* ------------------------------------------------------ position callbacks
\* The success callback of watch w (its closure holds w.isInitialLoad, w.isMobile).
\* State setters of an unmounted component do nothing.
PosSuccess(w, p) ==
    /\ flyTo' = Undefined
    /\ Called(IF ~mounted THEN {}
              ELSE {"setCurrentUserPosition", "setLocationError"}
                   \cup (IF w.isInitialLoad THEN {"setViewState", "setIsInitialLoad"} ELSE {}))
    /\ w \in watches
    /\ IF mounted
       THEN /\ currentUserPosition' = [latitude |-> p.latitude, longitude |-> p.longitude]
            /\ viewState' = IF w.isInitialLoad
                            THEN [viewState EXCEPT !.latitude = p.latitude, !.longitude = p.longitude,
                                                   !.zoom = IF w.isMobile THEN MobileZoom ELSE DesktopZoom]
                            ELSE viewState
            /\ isInitialLoad' = IF w.isInitialLoad THEN FALSE ELSE isInitialLoad
            /\ locationError' = Null
            /\ posEventSeen' = TRUE
       ELSE UNCHANGED <<currentUserPosition, viewState, isInitialLoad, locationError, posEventSeen>>
    /\ UNCHANGED <<mounted, geoSupported, handleBase, runs, isMobile, issues, selectedIssue, bounds, zoom, mapLoaded,
                   effVars, envVars, lastSnapLen, lastSnapValid>>

ErrorMessage(code) ==
    CASE code = PERMISSION_DENIED -> MsgDenied
      [] code = POSITION_UNAVAILABLE -> MsgUnavailable
      [] code = TIMEOUT -> MsgTimeout
      [] OTHER -> MsgDefault

\* Mutant of PosError: the callback does not end the initial load.
PosErrorKeepsLoading(w, code) ==
    /\ flyTo' = Undefined
    /\ Called(IF ~mounted THEN {} ELSE {"setLocationError"})
    /\ w \in watches
    /\ watches' = IF code = PERMISSION_DENIED THEN watches \ {w} ELSE watches
    /\ IF mounted
       THEN /\ locationError' = ErrorMessage(code)
            /\ posEventSeen' = TRUE
       ELSE UNCHANGED <<locationError, posEventSeen>>
    /\ UNCHANGED <<mounted, geoSupported, handleBase, runs, isMobile, issues, selectedIssue, currentUserPosition,
                   isInitialLoad, camVars, effVars, feeds, cancelled, lastSnapLen, lastSnapValid>>

\* Mutant of PosError: the callback also forgets the last known position.
PosErrorClearsPosition(w, code) ==
    /\ flyTo' = Undefined
    /\ Called(IF ~mounted THEN {}
              ELSE {"setLocationError", "setCurrentUserPosition"}
                   \cup (IF w.isInitialLoad THEN {"setIsInitialLoad"} ELSE {}))
    /\ w \in watches
    /\ watches' = IF code = PERMISSION_DENIED THEN watches \ {w} ELSE watches
    /\ IF mounted
       THEN /\ locationError' = ErrorMessage(code)
            /\ isInitialLoad' = IF w.isInitialLoad THEN FALSE ELSE isInitialLoad
            /\ currentUserPosition' = Null
            /\ posEventSeen' = TRUE
       ELSE UNCHANGED <<locationError, isInitialLoad, currentUserPosition, posEventSeen>>
    /\ UNCHANGED <<mounted, geoSupported, handleBase, runs, isMobile, issues, selectedIssue, camVars,
                   effVars, feeds, cancelled, lastSnapLen, lastSnapValid>>

\* The error callback of watch w.  The browser drops a watch whose permission
\* is denied; after the other errors the watch keeps running.
PosError(w, code) ==
    /\ flyTo' = Undefined
    /\ Called(IF ~mounted THEN {}
              ELSE {"setLocationError"} \cup (IF w.isInitialLoad THEN {"setIsInitialLoad"} ELSE {}))
    /\ w \in watches
    /\ watches' = IF code = PERMISSION_DENIED THEN watches \ {w} ELSE watches
    /\ IF mounted
       THEN /\ locationError' = ErrorMessage(code)
            /\ isInitialLoad' = IF w.isInitialLoad THEN FALSE ELSE isInitialLoad
            /\ posEventSeen' = TRUE
       ELSE UNCHANGED <<locationError, isInitialLoad, posEventSeen>>
    /\ UNCHANGED <<mounted, geoSupported, handleBase, runs, isMobile, issues, selectedIssue, currentUserPosition, camVars,
                   effVars, feeds, cancelled, lastSnapLen, lastSnapValid>>

\* ---------------------------------------------------------- feed callbacks
\* Mutant of Snapshot: the new records are appended to the list.
SnapshotAppends(f, snap) ==
    /\ flyTo' = Undefined
    /\ Called(IF mounted THEN {"setIssues"} ELSE {})
    /\ f \in feeds
    /\ issues' = IF mounted THEN issues \o IssuesData(snap) ELSE issues
    /\ lastSnapLen' = IF mounted THEN Len(snap) ELSE lastSnapLen
    /\ lastSnapValid' = IF mounted THEN RecordKeys(ValidRecords(snap)) ELSE lastSnapValid
    /\ UNCHANGED <<mounted, geoSupported, handleBase, runs, isMobile, selectedIssue, currentUserPosition, isInitialLoad,
                   locationError, camVars, effVars, envVars, posEventSeen>>

\* The onSnapshot callback of listener f.  lastSnapLen and lastSnapValid record
\* what was delivered, for the properties below.
Snapshot(f, snap) ==
    /\ flyTo' = Undefined
    /\ Called(IF mounted THEN {"setIssues"} ELSE {})
    /\ f \in feeds
    /\ issues' = IF mounted THEN IssuesData(snap) ELSE issues
    /\ lastSnapLen' = IF mounted THEN Len(snap) ELSE lastSnapLen
    /\ lastSnapValid' = IF mounted THEN RecordKeys(ValidRecords(snap)) ELSE lastSnapValid
    /\ UNCHANGED <<mounted, geoSupported, handleBase, runs, isMobile, selectedIssue, currentUserPosition, isInitialLoad,
                   locationError, camVars, effVars, envVars, posEventSeen>>

\* The listener fails.  onSnapshot is given no error callback: Firestore
\* detaches the listener and the component is not told.
FeedError(f) ==
    /\ flyTo' = Undefined
    /\ Called({})
    /\ f \in feeds
    /\ mounted
    /\ feeds' = feeds \ {f}
    /\ UNCHANGED <<mounted, geoSupported, handleBase, runs, isMobile, hookVars, camVars, effVars, watches, cancelled,
                   histVars>>

\* ----------------------------------------------------------- map callbacks
MapShown == mounted /\ ~Gate

\* onLoad
OnLoad ==
    /\ flyTo' = Undefined
    /\ Called({"setBounds"})
    /\ MapShown
    /\ ~mapLoaded
    /\ mapLoaded' = TRUE
    /\ bounds' = BoundsOf(viewState)
    /\ UNCHANGED <<mounted, geoSupported, handleBase, runs, isMobile, hookVars, zoom, viewState, effVars, envVars, histVars>>

\* Mutant of OnMove: setBounds is called on every move.
OnMoveAlwaysSetsBounds(vs) ==
    /\ flyTo' = Undefined
    /\ Called({"setViewState", "setBounds"} \cup (IF vs.zoom # zoom THEN {"setZoom"} ELSE {}))
    /\ MapShown
    /\ mapLoaded
    /\ viewState' = vs
    /\ zoom' = IF vs.zoom # zoom THEN vs.zoom ELSE zoom
    /\ bounds' = BoundsOf(vs)
    /\ UNCHANGED <<mounted, geoSupported, handleBase, runs, isMobile, hookVars, mapLoaded, effVars, envVars, histVars>>

\* Mutant of OnMove: the handler also re-sets the issue list (a fresh copy).
OnMoveCopiesIssues(vs) ==
    /\ flyTo' = Undefined
    /\ Called({"setViewState", "setIssues"}
              \cup (IF vs.zoom # zoom THEN {"setZoom"} ELSE {})
              \cup (IF BoundsOf(vs) # bounds THEN {"setBounds"} ELSE {}))
    /\ MapShown
    /\ mapLoaded
    /\ viewState' = vs
    /\ zoom' = IF vs.zoom # zoom THEN vs.zoom ELSE zoom
    /\ bounds' = IF BoundsOf(vs) # bounds THEN BoundsOf(vs) ELSE bounds
    /\ UNCHANGED <<mounted, geoSupported, handleBase, runs, isMobile, hookVars, mapLoaded, effVars, envVars, histVars>>

\* onMove
OnMove(vs) ==
    /\ flyTo' = Undefined
    /\ Called({"setViewState"}
              \cup (IF vs.zoom # zoom THEN {"setZoom"} ELSE {})
              \cup (IF BoundsOf(vs) # bounds THEN {"setBounds"} ELSE {}))
    /\ MapShown
    /\ mapLoaded
    /\ viewState' = vs
    /\ zoom' = IF vs.zoom # zoom THEN vs.zoom ELSE zoom
    /\ bounds' = IF BoundsOf(vs) # bounds THEN BoundsOf(vs) ELSE bounds
    /\ UNCHANGED <<mounted, geoSupported, handleBase, runs, isMobile, hookVars, mapLoaded, effVars, envVars, histVars>>

\* Mutant of HandlePinClick: the fly-to keeps the stored zoom (no Math.max).
HandlePinClickKeepsZoom(issue) ==
    /\ MapShown
    /\ \E i \in 1 .. Len(RenderSet.clusters) :
          /\ ~RenderSet.clusters[i].cluster
          /\ RenderSet.clusters[i].issue = issue
    /\ selectedIssue' = issue
    /\ Called({"setSelectedIssue"})
    /\ flyTo' = [t |-> "flyTo", lng |-> issue.location.lng.v, lat |-> issue.location.lat.v,
                 zoom |-> zoom]
    /\ UNCHANGED <<mounted, geoSupported, handleBase, runs, isMobile, issues, currentUserPosition, isInitialLoad, locationError,
                   bounds, zoom, viewState, mapLoaded, effVars, envVars, histVars>>

\* handlePinClick(issue), from the onClick of a rendered single-issue marker.
HandlePinClick(issue) ==
    /\ MapShown
    /\ \E i \in 1 .. Len(RenderSet.clusters) :
          /\ ~RenderSet.clusters[i].cluster
          /\ RenderSet.clusters[i].issue = issue
    /\ selectedIssue' = issue
    /\ Called({"setSelectedIssue"})
    /\ flyTo' = [t |-> "flyTo", lng |-> issue.location.lng.v, lat |-> issue.location.lat.v,
                 zoom |-> Max(FocusZoom, zoom)]
    /\ UNCHANGED <<mounted, geoSupported, handleBase, runs, isMobile, issues, currentUserPosition, isInitialLoad, locationError,
                   bounds, zoom, viewState, mapLoaded, effVars, envVars, histVars>>

\* onClick of a rendered cluster marker.  The handler does not stop the
\* click's propagation (handlePinClick's caller does), so the click also
\* reaches the map, and the Popup, rendered with closeOnClick, closes and
\* calls onClose.
ClusterClick(c) ==
    /\ MapShown
    /\ c.cluster
    /\ flyTo' = [t |-> "flyTo", lng |-> c.lng, lat |-> c.lat,
                 zoom |-> Min(GetClusterExpansionZoom(Points(issues), c, zoom), MaxExpansionZoom)]
    /\ selectedIssue' = IF Truthy(selectedIssue) THEN Null ELSE selectedIssue
    /\ Called(IF Truthy(selectedIssue) THEN {"setSelectedIssue"} ELSE {})
    /\ UNCHANGED <<mounted, geoSupported, handleBase, runs, isMobile, issues, currentUserPosition, isInitialLoad, locationError,
                   bounds, zoom, viewState, mapLoaded, effVars, envVars, histVars>>

\* The issue list each snapshot delivers.
DeliveredIssues == [snap \in Snapshots |-> IssuesData(snap)]

\* The index supercluster holds for the points pts has a cluster c when a
\* query at some zoom returns it.
InIndex(pts, c) ==
    \E z \in 0 .. ClusterMaxZoom :
        LET g == Group(pts, z, {}) IN \E k \in 1 .. Len(g) : g[k] = c

ErrNoCluster == Str("No cluster with the specified id.")

\* The same onClick handed a cluster that the index does not hold.  The
\* handler calls supercluster.getClusterExpansionZoom(cluster.id) unguarded,
\* and supercluster throws for an id it does not know: the flyTo call is not
\* reached.  The click itself still reaches the map and closes the Popup.
StaleClusterClick(c) ==
    /\ MapShown
    /\ mapLoaded
    /\ c.cluster
    /\ ~InIndex(Points(issues), c)
    /\ flyTo' = Undefined
    /\ thrown' = ErrNoCluster
    /\ selectedIssue' = IF Truthy(selectedIssue) THEN Null ELSE selectedIssue
    /\ calls' = IF traced /\ Truthy(selectedIssue) THEN {"setSelectedIssue"} ELSE {}
    /\ traced' = traced
    /\ UNCHANGED pageVars
    /\ UNCHANGED <<mounted, geoSupported, handleBase, runs, isMobile, issues, currentUserPosition, isInitialLoad, locationError,
                   bounds, zoom, viewState, mapLoaded, effVars, envVars, histVars>>

\* Mutant of PopupClose: closing the popup flies back to the default view.
PopupCloseFliesBack ==
    /\ flyTo' = [t |-> "flyTo", lng |-> DefaultLongitude, lat |-> DefaultLatitude, zoom |-> DefaultViewZoom]
    /\ Called({"setSelectedIssue"})
    /\ MapShown
    /\ Truthy(selectedIssue)
    /\ selectedIssue' = Null
    /\ UNCHANGED <<mounted, geoSupported, handleBase, runs, isMobile, issues, currentUserPosition, isInitialLoad, locationError,
                   camVars, effVars, envVars, histVars>>

\* The Popup's onClose.
PopupClose ==
    /\ flyTo' = Undefined
    /\ Called({"setSelectedIssue"})
    /\ MapShown
    /\ Truthy(selectedIssue)
    /\ selectedIssue' = Null
    /\ UNCHANGED <<mounted, geoSupported, handleBase, runs, isMobile, issues, currentUserPosition, isInitialLoad, locationError,
                   camVars, effVars, envVars, histVars>>

\* ------------------------------------------------------------------ Next
Next ==
    \/ RunEffect
    \/ Unmount
    \/ Resize
    \/ \E w \in watches, p \in Positions : PosSuccess(w, p)
    \/ \E w \in watches, code \in ErrorCodes : PosError(w, code)
    \/ \E f \in feeds, snap \in Snapshots : Snapshot(f, snap)
    \/ \E f \in feeds : FeedError(f)
    \/ OnLoad
    \/ \E vs \in MoveViews : OnMove(vs)
    \/ \E i \in 1 .. Len(issues) : HandlePinClick(issues[i])
    \/ \E i \in 1 .. Len(RenderSet.clusters) : ClusterClick(RenderSet.clusters[i])
    \/ PopupClose

Spec == Init /\ [][Next]_vars

\* The same program with the setter calls of each step kept in `calls`, for
\* the properties that speak of what a step called.
TracedInit == Mounting /\ traced = TRUE
TracedSpec == TracedInit /\ [][Next]_vars

\* The aggregate clusters a query can return for some deliverable issue list:
\* the clusters a caller of the onClick can hold.
KnownClusters ==
    { c \in UNION { { Group(Points(DeliveredIssues[snap]), z, {})[k] :
                        k \in 1 .. Len(Group(Points(DeliveredIssues[snap]), z, {})) } :
                    snap \in Snapshots, z \in 0 .. ClusterMaxZoom } : c.cluster }

\* The component with the cluster onClick taken as a function of the cluster
\* handed to it: besides the clusters rendered from the current index it is
\* called with clusters the index does not hold.
ExpansionNext ==
    \/ Next
    \/ \E c \in KnownClusters : StaleClusterClick(c)

ExpansionSpec == Init /\ [][ExpansionNext]_vars

\* The position stream eventually delivers a sample or an error to a
\* registered watch, and React eventually runs an effect it has scheduled.
PosEvent ==
    \E w \in watches :
        \/ \E p \in Positions : PosSuccess(w, p)
        \/ \E code \in ErrorCodes : PosError(w, code)

LiveSpec == Spec /\ WF_vars(RunEffect) /\ WF_vars(PosEvent)

\* ================================================================ claims
\* The controller states of the specification, read off the events processed
\* and the render.
AwaitingLocation == mounted /\ ~posEventSeen
Ready == mounted /\ RenderSet.map

IssueKeys(iss) == [i \in 1 .. Len(iss) |-> <<iss[i].id, iss[i].location.lat.v, iss[i].location.lng.v>>]
PointKeys(pts) == [i \in 1 .. Len(pts) |-> <<pts[i].issueId, pts[i].lat, pts[i].lng>>]

\* C1: if issue X is selected and a feed snapshot is processed whose valid
\* records do not include X, the selection is none afterwards.
C1_SelectionClearedWhenRecordGone ==
    [][ \A f \in feeds, snap \in Snapshots :
          ( /\ mounted
            /\ Truthy(selectedIssue)
            /\ Snapshot(f, snap)
            /\ \A i \in 1 .. Len(ValidRecords(snap)) : ValidRecords(snap)[i].id # selectedIssue.id )
          => selectedIssue' = Null ]_vars

\* C2: the controller shows the loading gate exactly until the first position
\* sample, the first position failure or the detection that geolocation is
\* unsupported; with a position stream that eventually delivers, the map is
\* eventually shown (unless the component is unmounted first).
C2_ReadyEventually ==
    /\ [](mounted => (RenderSet.loader <=> ~posEventSeen))
    /\ <>(~mounted \/ Ready)

C2_ReadyWhenDenied ==
    Ready /\ locationError = MsgDenied /\ currentUserPosition = Null

\* C3: while the controller awaits the location, nothing but the loader is
\* rendered: no cluster or issue marker, no user-position marker, no selection
\* panel, no empty-state overlay, whatever the feed has delivered.
C3_NothingRenderedWhileAwaiting ==
    AwaitingLocation =>
        /\ RenderSet.clusters = <<>>
        /\ RenderSet.userMarker = Null
        /\ RenderSet.popup = Null
        /\ ~RenderSet.emptyState

C3_AwaitingWithIssues == AwaitingLocation /\ Len(issues) > 0

\* C4: after any sequence of feed snapshots the issue list, and the points
\* derived from it, are exactly the valid records of the snapshot delivered
\* last, in snapshot order (M valid records out of N), so that a record with a
\* null lat is never a point.
C4_IssuesAreValidRecords ==
    mounted =>
        /\ IssueKeys(issues) = lastSnapValid
        /\ PointKeys(Points(issues)) = lastSnapValid
        /\ (lastSnapLen >= 0 => Len(issues) <= lastSnapLen)

C4_RecordDropped == mounted /\ lastSnapLen = 2 /\ Len(issues) = 1

\* C5: after the component is unmounted no feed listener and no position watch
\* of the component is registered.
C5_NothingLeftAfterUnmount == ~mounted => (watches = {} /\ feeds = {})

C7_NoWatchAfterTerminalFailure ==
    [][ (mounted /\ locationError \in {MsgDenied, MsgUnsupported})
        => { w.id : w \in watches' } \subseteq { w.id : w \in watches } ]_vars

\* C8: a timeout reported to the watch in force does not lead to that watch
\* being cancelled and replaced: it schedules no re-run of the subscribing
\* effect (whose cleanup clears the watch and whose body registers a new one).
C8_TimeoutKeepsWatch ==
    [][ \A w \in watches :
          (mounted /\ ~EffectPending /\ PosError(w, TIMEOUT)) => ~EffectPending' ]_vars

\* C9: when the feed listener reports a failure, a feed-failure banner is shown.
FeedBannerShown ==
    /\ Truthy(RenderSet.banner)
    /\ RenderSet.banner \notin {MsgDenied, MsgUnavailable, MsgTimeout, MsgDefault, MsgUnsupported}

C9_FeedFailureBanner ==
    [][ \A f \in feeds : FeedError(f) => FeedBannerShown' ]_vars

\* C10: after permission denied has been reported the controller is Ready,
\* the location banner is shown and no user-position marker is rendered.
C10_TerminalFailureRender ==
    [][ \A w \in watches :
          (mounted /\ PosError(w, PERMISSION_DENIED)) =>
              /\ Ready'
              /\ Truthy(RenderSet.banner')
              /\ RenderSet.userMarker' = Null ]_vars

\* ------------------------------------- callbacks as functions of the state
\* The state of the component's hooks as one record, and what the three
\* asynchronous callbacks make of it.
Ctl ==
    [issues |-> issues, selectedIssue |-> selectedIssue, currentUserPosition |-> currentUserPosition,
     isInitialLoad |-> isInitialLoad, locationError |-> locationError,
     bounds |-> bounds, zoom |-> zoom, viewState |-> viewState, mapLoaded |-> mapLoaded]

\* onSnapshot callback: setIssues(issuesData).
SnapshotOn(c, snap) == [c EXCEPT !.issues = IssuesData(snap)]

\* watchPosition success callback of watch w.
PosSuccessOn(c, w, p) ==
    [c EXCEPT !.currentUserPosition = [latitude |-> p.latitude, longitude |-> p.longitude],
              !.viewState = IF w.isInitialLoad
                            THEN [@ EXCEPT !.latitude = p.latitude, !.longitude = p.longitude,
                                           !.zoom = IF w.isMobile THEN MobileZoom ELSE DesktopZoom]
                            ELSE @,
              !.isInitialLoad = IF w.isInitialLoad THEN FALSE ELSE @,
              !.locationError = Null]

\* onMove of the <Map>, which exists and reports moves once it is rendered
\* and loaded.
OnMoveOn(c, vs) ==
    IF (c.isInitialLoad /\ ~Truthy(c.locationError)) \/ ~c.mapLoaded THEN c
    ELSE [c EXCEPT !.viewState = vs,
                   !.zoom = IF vs.zoom # @ THEN vs.zoom ELSE @,
                   !.bounds = IF BoundsOf(vs) # @ THEN BoundsOf(vs) ELSE @]

\* The three functions are what the actions do to the hooks.
CallbacksAsFunctions ==
    [][ /\ \A f \in feeds, snap \in Snapshots :
              (mounted /\ Snapshot(f, snap)) => Ctl' = SnapshotOn(Ctl, snap)
        /\ \A w \in watches, p \in Positions :
              (mounted /\ PosSuccess(w, p)) => Ctl' = PosSuccessOn(Ctl, w, p)
        /\ \A vs \in MoveViews :
              OnMove(vs) => Ctl' = OnMoveOn(Ctl, vs) ]_vars

\* The part of the controller state the ordering guarantee speaks of.
Observed(c) ==
    <<c.issues, c.currentUserPosition, c.locationError, c.selectedIssue, c.bounds, c.zoom,
      c.viewState.longitude, c.viewState.latitude>>

\* C11: two pending events from different sources (feed snapshot, position
\* sample, camera move) leave the same controller state whichever is
\* processed first.
C11_OrderIndependent ==
    mounted =>
        /\ \A f \in feeds, snap \in Snapshots, w \in watches, p \in Positions :
              Observed(PosSuccessOn(SnapshotOn(Ctl, snap), w, p))
                  = Observed(SnapshotOn(PosSuccessOn(Ctl, w, p), snap))
        /\ \A f \in feeds, snap \in Snapshots, vs \in MoveViews :
              (MapShown /\ mapLoaded) =>
                  Observed(OnMoveOn(SnapshotOn(Ctl, snap), vs))
                      = Observed(SnapshotOn(OnMoveOn(Ctl, vs), snap))
        /\ \A w \in watches, p \in Positions, vs \in MoveViews :
              (MapShown /\ mapLoaded) =>
                  Observed(OnMoveOn(PosSuccessOn(Ctl, w, p), vs))
                      = Observed(PosSuccessOn(OnMoveOn(Ctl, vs), w, p))

\* C12 as claimed: in every Ready state in which the current cluster query
\* returns zero entries, the "no issues yet" overlay is shown.  (The query is
\* made once the bounds are known.)
C12_EmptyStateWhenNoClusters ==
    (Ready /\ bounds # Undefined /\ RenderSet.clusters = <<>>) => RenderSet.emptyState

\* C12 as amended: in every Ready state in which the issue list is empty (the
\* feed delivered no valid record), the "no issues yet" overlay is shown.
C12_EmptyStateWhenNoIssues ==
    (Ready /\ issues = <<>>) => RenderSet.emptyState

C12_ReadyWithNoValidRecord ==
    Ready /\ lastSnapLen = 1 /\ issues = <<>> /\ RenderSet.emptyState /\ mapLoaded

\* The scenario of C13: the feed has delivered one valid record, permission
\* was denied and no sample was ever delivered.
C13_Scenario ==
    /\ mounted
    /\ Len(issues) = 1
    /\ locationError = MsgDenied
    /\ currentUserPosition = Null

\* The record of the scenario: at (40.0, -74.0).
C13_RecordOfScenario ==
    PointOf(issues[1]).lat = 400000 /\ PointOf(issues[1]).lng = -740000

DefaultCamera ==
    viewState = [longitude |-> DefaultLongitude, latitude |-> DefaultLatitude, zoom |-> DefaultViewZoom]

\* C13 as claimed: in that scenario, with the default camera (and the map
\* loaded), the controller is Ready, no user position is rendered, the render
\* set holds exactly one leaf cluster at the record's coordinates and the
\* empty-state overlay is not shown.
C13_OneLeafWithDefaultCamera ==
    (C13_Scenario /\ mapLoaded /\ DefaultCamera /\ C13_RecordOfScenario) =>
        /\ Ready
        /\ RenderSet.userMarker = Null
        /\ RenderSet.clusters = <<PointOf(issues[1])>>
        /\ ~RenderSet.emptyState

\* C13 as amended: in that scenario the controller is Ready, no user position
\* is rendered and the empty-state overlay is not shown; the render set holds
\* exactly one leaf cluster at the record's coordinates when the map has
\* loaded and the record lies inside the stored bounds, and no cluster
\* otherwise.
C13_OneLeafWhenInBounds ==
    C13_Scenario =>
        /\ Ready
        /\ RenderSet.userMarker = Null
        /\ ~RenderSet.emptyState
        /\ RenderSet.clusters =
              IF bounds # Undefined /\ InBounds(PointOf(issues[1]), bounds)
              THEN <<PointOf(issues[1])>> ELSE <<>>

\* The record at (40.0, -74.0) with the default camera at (40.7128, -74.006), zoom 12.
C13_ScenarioReached ==
    /\ C13_Scenario /\ mapLoaded /\ DefaultCamera
    /\ issues[1].id = "a"
    /\ C13_RecordOfScenario
    /\ RenderSet.clusters = <<>>

\* C14: in every Ready state, selecting an issue records it as the selection
\* and issues a fly-to centred on the issue's coordinates whose zoom is at
\* least the focus zoom (16) and at least the camera's current zoom.
C14_SelectFliesInNeverOut ==
    [][ \A i \in 1 .. Len(issues) :
          (flyTo' # Undefined /\ Ready /\ HandlePinClick(issues[i])) =>
              /\ selectedIssue' = issues[i]
              /\ flyTo'.t = "flyTo"
              /\ flyTo'.lng = issues[i].location.lng.v
              /\ flyTo'.lat = issues[i].location.lat.v
              /\ flyTo'.zoom >= FocusZoom
              /\ flyTo'.zoom >= viewState.zoom ]_vars

\* An issue has just been selected with the camera beyond the focus zoom.
C14_SelectedBeyondFocusZoom ==
    /\ Ready
    /\ Truthy(selectedIssue)
    /\ flyTo.t = "flyTo"
    /\ flyTo.zoom > FocusZoom
    /\ flyTo.lng = selectedIssue.location.lng.v

\* C15: tapping an aggregate cluster issues a fly-to to the cluster's centroid
\* at the cluster's expansion zoom and leaves the selection unchanged, whether
\* an issue is selected or not.
C15_ExpandKeepsSelection ==
    [][ \A i \in 1 .. Len(RenderSet.clusters) :
          (flyTo' # Undefined /\ ClusterClick(RenderSet.clusters[i])) =>
              /\ flyTo'.lng = RenderSet.clusters[i].lng
              /\ flyTo'.lat = RenderSet.clusters[i].lat
              /\ flyTo'.zoom = GetClusterExpansionZoom(Points(issues), RenderSet.clusters[i], zoom)
              /\ selectedIssue' = selectedIssue ]_vars

\* C16: dismissing the selection sets the selection to none and leaves the
\* camera centre, zoom and bounds unchanged; no fly-to is issued.
C16_DismissKeepsCamera ==
    [][ PopupClose =>
          /\ selectedIssue' = Null
          /\ viewState' = viewState
          /\ zoom' = zoom
          /\ bounds' = bounds
          /\ flyTo' = Undefined ]_vars

\* A selection has just been dismissed with the camera away from its defaults.
C16_DismissedAfterMove ==
    /\ Ready
    /\ calls = {"setSelectedIssue"}
    /\ selectedIssue = Null
    /\ flyTo = Undefined
    /\ zoom # InitialZoom

\* C17: a camera move whose bounds equal the stored bounds and whose zoom
\* equals the stored zoom sets neither (so nothing is recomputed); setBounds
\* and setZoom are called exactly when the event's value differs.
C17_MoveSetsOnlyWhatDiffers ==
    [][ \A vs \in MoveViews :
          ("setViewState" \in calls' /\ viewState' = vs /\ OnMove(vs)) =>
              /\ ("setBounds" \in calls') <=> (BoundsOf(vs) # bounds)
              /\ ("setZoom" \in calls') <=> (vs.zoom # zoom)
              /\ (BoundsOf(vs) = bounds) => (bounds' = bounds)
              /\ (vs.zoom = zoom) => (zoom' = zoom) ]_vars

\* A move has just been processed that set neither the bounds nor the zoom.
C17_MoveWithEqualBounds ==
    Ready /\ mapLoaded /\ calls = {"setViewState"}

\* The points memo, useMemo(..., [issues]), is recomputed by the render that
\* follows a call of setIssues, and the index with it.
PointsRegenerated == "setIssues" \in calls

\* C18: the Point set (and the index) is regenerated only by a step that
\* processes a feed snapshot: never by a camera move, a position sample, a
\* selection, a dismissal or a cluster expansion.
C18_PointsRegeneratedOnlyBySnapshot ==
    [][ PointsRegenerated' =>
          \E snap \in Snapshots :
              issues' = DeliveredIssues[snap] /\ \E f \in feeds : Snapshot(f, snap) ]_vars

\* A camera move has just changed the bounds with two points present.
C18_MovedWithPoints ==
    /\ Ready
    /\ Len(issues) = 2
    /\ {"setViewState", "setBounds"} \subseteq calls
    /\ ~PointsRegenerated

\* C19: processing the same feed snapshot twice in a row leaves the same
\* controller state and the same render set as processing it once.
C19_SameSnapshotTwice ==
    [][ (mounted /\ calls = {"setIssues"} /\ calls' = {"setIssues"}) =>
          \A snap \in Snapshots :
              (lastSnapLen = Len(snap) /\ issues = DeliveredIssues[snap])
              => \A f \in feeds : Snapshot(f, snap) => (Ctl' = Ctl /\ RenderSet' = RenderSet) ]_vars

\* A snapshot has just been processed with markers and a popup rendered.
C19_SnapshotRendered ==
    /\ Ready
    /\ calls = {"setIssues"}
    /\ Len(RenderSet.clusters) = 2
    /\ Truthy(RenderSet.popup)

\* C20: in every Ready state (with the map loaded) the bounds and the zoom
\* passed to the cluster query are the camera's current bounds and zoom.
C20_QueryMatchesCamera ==
    (Ready /\ mapLoaded) =>
        /\ zoom = viewState.zoom
        /\ bounds = BoundsOf(viewState)

\* C21: the user position is absent until the first successful position
\* sample, and only a position sample changes it: a step of the mounted
\* component that is a feed snapshot, a camera move, a position error, a
\* selection, a dismissal or a cluster expansion leaves it as it was.
C21_PositionOnlyFromSamples ==
    /\ currentUserPosition = Null
    /\ [][ (currentUserPosition' # currentUserPosition /\ mounted')
             => \E w \in watches, p \in Positions :
                    /\ PosSuccess(w, p)
                    /\ currentUserPosition' = [latitude |-> p.latitude, longitude |-> p.longitude] ]_vars

\* A state with a known position after which an error was reported, a snapshot
\* delivered, the camera moved and an issue selected.
C21_PositionKeptThroughEvents ==
    /\ mounted
    /\ Truthy(currentUserPosition)
    /\ Truthy(locationError)
    /\ lastSnapLen > 0
    /\ viewState \in MoveViews
    /\ Truthy(selectedIssue)

MembersOf(c) == IF c.cluster THEN c.members ELSE {c.issueId}

\* C23: for every aggregate cluster C a query returns, the query at the zoom
\* the controller passes to fly-to when C is tapped returns at least two
\* clusters or leaves whose members together are exactly the members of C,
\* also when the members of C share their coordinates.
C23_ExpansionZoomSplits ==
    \A i \in 1 .. Len(RenderSet.clusters) :
        LET c == RenderSet.clusters[i]
        IN c.cluster =>
             LET ez == Min(GetClusterExpansionZoom(Points(issues), c, zoom), MaxExpansionZoom)
                 g == Group(Points(issues), ez, {})
                 parts == { k \in 1 .. Len(g) : MembersOf(g[k]) \subseteq c.members }
             IN /\ Cardinality(parts) >= 2
                /\ UNION { MembersOf(g[k]) : k \in parts } = c.members

\* C24: Ready is absorbing.  Once the loading gate has been left, no step of
\* the mounted component (position sample or error, feed snapshot, camera
\* event, effect re-run) brings the gate back before unmount.
C24_ReadyIsAbsorbing ==
    [][ (mounted /\ ~Gate /\ mounted') => ~Gate' ]_vars

\* Ready with the error that opened the gate cleared again by a later sample,
\* after the effect re-ran, a snapshot was delivered and the camera moved.
C24_ReadyAfterErrorCleared ==
    /\ Ready
    /\ locationError = Null
    /\ Truthy(currentUserPosition)
    /\ viewState.zoom \notin {MobileZoom, DesktopZoom}
    /\ WatchToken(handleBase) \in cancelled
    /\ runs = MaxRuns
    /\ lastSnapLen > 0

\* C25: while the component is mounted, at most one feed listener and at most
\* one position watch of the component are registered, whatever the number of
\* re-runs of the subscribing effect.
C25_AtMostOneSubscription ==
    mounted => (Cardinality(feeds) <= 1 /\ Cardinality(watches) <= 1)

\* C26: only the first position sample after mount recentres the camera and
\* sets its zoom; a sample processed when a position is already known leaves
\* the camera centre and zoom as they are, whichever watch delivers it.
C26_LaterSamplesKeepCamera ==
    [][ \A w \in watches, p \in Positions :
          (mounted /\ Truthy(currentUserPosition) /\ PosSuccess(w, p)) => viewState' = viewState ]_vars

\* ============================================== DashboardPage (/dashboard)
\* The model lets the subscribing effect of the page run at most MaxSubscribes times.
MaxSubscribes == 3

\* Documents of the "issues" collection as the page reads them, all on the
\* meridian of the user's position; location is absent in a malformed document.
DashDoc(id, userId, location) ==
    [id |-> id, data |-> [userId |-> userId, status |-> "open", location |-> location]]

DashAt(lat) == Location(Num(lat), Num(-740000))

\* The backend does not change while the page is open: one content of the
\* "issues" collection per behaviour.  0.1 degree of latitude is 11.1 km.
DashBackends ==
    { <<>>,
      <<DashDoc("a", "u1", DashAt(401000))>>,
      <<DashDoc("a", "u1", DashAt(403000))>>,
      <<DashDoc("a", "u1", DashAt(401000)), DashDoc("b", "u2", DashAt(399000)), DashDoc("c", "u2", DashAt(400500))>>,
      <<DashDoc("a", "u1", DashAt(401000)), DashDoc("b", "u2", Undefined)>> }

\* The "users" collection: ids of the documents, each with a name and a photoURL.
DashUsers == { {}, {"u1"}, {"u1", "u2"} }

DashPositions == { [latitude |-> 400000, longitude |-> -740000] }

MsgDashUnsupported == Str("Geolocation is not supported by your browser.")
MsgDashNoLocation == Str("Could not get your location: <err.message>. Some features may be unavailable.")
MsgDashNoData == Str("Could not load community data. Please refresh the page.")
ErrTypeError == Str("TypeError: Cannot read properties of undefined (reading 'lat')")

\* geolib.getDistance(start, end), in metres, for two points on one meridian:
\* there the haversine formula gives R * dLat, with R = 6371 km, which is
\* 111.195 km per degree; coordinates are in units of 1/10000 degree.
GetDistance(start, end) ==
    (Abs(end.latitude - start.latitude) * 111195) \div 10000

RadiusMetres == 20000

\* allIssues.filter(issue => getDistance(userPosition, issue.location) <= 20)
RECURSIVE NearbyIssues(_, _)
NearbyIssues(pos, docs) ==
    IF docs = <<>> THEN <<>>
    ELSE LET d == Head(docs)
             issue == [id |-> d.id, userId |-> d.data.userId, status |-> d.data.status, location |-> d.data.location]
             rest == NearbyIssues(pos, Tail(docs))
         IN IF GetDistance(pos, [latitude |-> d.data.location.lat.v, longitude |-> d.data.location.lng.v]) <= RadiusMetres
            THEN <<issue>> \o rest ELSE rest

\* issueCounts: the user ids of the issues in order of first occurrence, each
\* with its number of issues (Object.entries keeps insertion order).
RECURSIVE IssueCounts(_)
IssueCounts(iss) ==
    IF iss = <<>> THEN <<>>
    ELSE LET u == iss[Len(iss)].userId
             before == IssueCounts(SubSeq(iss, 1, Len(iss) - 1))
         IN IF \E k \in 1 .. Len(before) : before[k].userId = u
            THEN [k \in 1 .. Len(before) |->
                     IF before[k].userId = u THEN [before[k] EXCEPT !.count = @ + 1] ELSE before[k]]
            ELSE Append(before, [userId |-> u, count |-> 1])

\* .sort((a, b) => b.count - a.count): stable, descending by count.
RECURSIVE SortByCount(_)
SortByCount(es) ==
    IF es = <<>> THEN <<>>
    ELSE LET k == CHOOSE i \in 1 .. Len(es) :
                      /\ \A j \in 1 .. Len(es) : es[j].count <= es[i].count
                      /\ \A j \in 1 .. (i - 1) : es[j].count < es[i].count
         IN <<es[k]>> \o SortByCount(SubSeq(es, 1, k - 1) \o SubSeq(es, k + 1, Len(es)))

\* leaderboardData: the counts with the users' names, sorted, top 10.
LeaderboardData(iss, users) ==
    LET es == SortByCount(IssueCounts(iss))
        named == [k \in 1 .. Len(es) |->
                    [userId |-> es[k].userId, count |-> es[k].count,
                     name |-> IF es[k].userId \in users THEN es[k].userId ELSE "Anonymous"]]
    IN SubSeq(named, 1, Min(10, Len(named)))

\* Dependency list of the subscribing effect, [userPosition, localIssues]:
\* React compares the entries by identity; every setLocalIssues call stores
\* a new array, which localIssuesRef numbers.
DashDeps == [t |-> "deps", userPosition |-> dashboard.userPosition, localIssues |-> dashboard.localIssuesRef]

DashEffectPending == dashboard.mounted /\ dashboard.effDeps # DashDeps

\* The listeners the effect instance in force attached (its cleanup detaches them).
DashOwnListeners == { l \in dashboard.listeners : l.run = dashboard.subscribes }

\* The page's steps leave the MapView alone.
DashStep(d) ==
    /\ dashboard' = d
    /\ UNCHANGED <<mapVars, myReports, reportForm, layout>>

\* First commit: both effects run in order.  The first asks for the position
\* once; the second returns at once because userPosition is still null.
DashMountEffects ==
    /\ dashboard.mounted
    /\ dashboard.effDeps = Undefined
    /\ DashStep(IF dashboard.geoSupported
                THEN [dashboard EXCEPT !.positionRequest = "pending", !.effDeps = DashDeps, !.thrown = Undefined]
                ELSE [dashboard EXCEPT !.error = MsgDashUnsupported, !.loading = FALSE,
                                       !.effDeps = DashDeps, !.thrown = Undefined])

\* getCurrentPosition success callback.
DashPosSuccess(p) ==
    /\ dashboard.mounted
    /\ dashboard.positionRequest = "pending"
    /\ DashStep([dashboard EXCEPT !.positionRequest = "done",
                                  !.userPosition = [latitude |-> p.latitude, longitude |-> p.longitude],
                                  !.error = Null, !.thrown = Undefined])

\* getCurrentPosition error callback.
DashPosError ==
    /\ dashboard.mounted
    /\ dashboard.positionRequest = "pending"
    /\ DashStep([dashboard EXCEPT !.positionRequest = "done", !.error = MsgDashNoLocation,
                                  !.loading = FALSE, !.thrown = Undefined])

\* onSnapshot(query, onNext, onError): the listener attached by effect run n,
\* with what its callbacks' closure holds.  Firestore delivers a first
\* snapshot to every listener it attaches.
DashListener(kind, n) ==
    [kind |-> kind, run |-> n, pending |-> TRUE,
     userPosition |-> dashboard.userPosition, localIssues |-> dashboard.localIssues]

\* The effect `useEffect(() => {...}, [userPosition, localIssues])` re-runs
\* after a render in which a dependency changed: React runs the cleanup of the
\* instance it replaces (unsubscribeIssues(); unsubscribeUsers()), then the body.
DashRunEffect ==
    /\ DashEffectPending
    /\ dashboard.effDeps # Undefined
    /\ dashboard.subscribes < MaxSubscribes
    /\ LET kept == dashboard.listeners \ DashOwnListeners
           n == dashboard.subscribes + 1
       IN DashStep(IF Truthy(dashboard.userPosition)
                   THEN [dashboard EXCEPT !.listeners = kept \cup {DashListener("issues", n), DashListener("users", n)},
                                          !.subscribes = n, !.effDeps = DashDeps, !.thrown = Undefined]
                   ELSE [dashboard EXCEPT !.listeners = kept, !.effDeps = DashDeps, !.thrown = Undefined])

\* The issues listener's onNext.  A document without location makes the
\* filter callback throw before setLocalIssues is reached.
DashIssuesSnapshot(l) ==
    /\ dashboard.mounted
    /\ l \in dashboard.listeners
    /\ l.kind = "issues"
    /\ l.pending
    /\ LET delivered == (dashboard.listeners \ {l}) \cup {[l EXCEPT !.pending = FALSE]}
       IN DashStep(IF \E k \in 1 .. Len(dashboard.backend) : dashboard.backend[k].data.location = Undefined
                   THEN [dashboard EXCEPT !.listeners = delivered, !.thrown = ErrTypeError]
                   ELSE [dashboard EXCEPT !.listeners = delivered,
                                          !.localIssues = NearbyIssues(l.userPosition, dashboard.backend),
                                          !.localIssuesRef = @ + 1,
                                          !.loading = FALSE, !.thrown = Undefined])

\* The issues listener's onError; Firestore detaches a listener that failed.
DashIssuesError(l) ==
    /\ dashboard.mounted
    /\ l \in dashboard.listeners
    /\ l.kind = "issues"
    /\ DashStep([dashboard EXCEPT !.listeners = @ \ {l}, !.error = MsgDashNoData, !.loading = FALSE,
                                  !.thrown = Undefined])

\* The users listener's onNext: the leaderboard of the localIssues its closure holds.
DashUsersSnapshot(l) ==
    /\ dashboard.mounted
    /\ l \in dashboard.listeners
    /\ l.kind = "users"
    /\ l.pending
    /\ DashStep([dashboard EXCEPT !.listeners = (@ \ {l}) \cup {[l EXCEPT !.pending = FALSE]},
                                  !.leaderboard = LeaderboardData(l.localIssues, dashboard.users),
                                  !.thrown = Undefined])

\* The users listener's onError only logs.
DashUsersError(l) ==
    /\ dashboard.mounted
    /\ l \in dashboard.listeners
    /\ l.kind = "users"
    /\ DashStep([dashboard EXCEPT !.listeners = @ \ {l}, !.thrown = Undefined])

\* The page is left: the cleanup of the effect instance in force runs.
DashUnmount ==
    /\ dashboard.mounted
    /\ DashStep([DashboardAbsent EXCEPT !.listeners = dashboard.listeners \ DashOwnListeners,
                                        !.subscribes = dashboard.subscribes,
                                        !.geoSupported = dashboard.geoSupported,
                                        !.backend = dashboard.backend, !.users = dashboard.users])

\* The MapView is not on screen while the dashboard page is.
MapViewAbsent ==
    /\ mounted = FALSE
    /\ geoSupported = FALSE
    /\ handleBase = 0
    /\ runs = 0
    /\ issues = <<>>
    /\ selectedIssue = Null
    /\ currentUserPosition = Null
    /\ isInitialLoad = TRUE
    /\ locationError = Null
    /\ bounds = Undefined
    /\ zoom = InitialZoom
    /\ viewState = [longitude |-> DefaultLongitude, latitude |-> DefaultLatitude, zoom |-> DefaultViewZoom]
    /\ isMobile = FALSE
    /\ mapLoaded = FALSE
    /\ flyTo = Undefined
    /\ thrown = Undefined
    /\ calls = {}
    /\ traced = FALSE
    /\ effDeps = Undefined
    /\ watchId = Undefined
    /\ unsubscribe = Undefined
    /\ watches = {}
    /\ feeds = {}
    /\ cancelled = {}
    /\ posEventSeen = FALSE
    /\ lastSnapLen = -1
    /\ lastSnapValid = <<>>

\* The page right after its first render.
DashInit ==
    /\ MapViewAbsent
    /\ myReports = MyReportsAbsent
    /\ reportForm = ReportFormAbsent
    /\ layout = LayoutAbsent
    /\ \E g \in BOOLEAN, b \in DashBackends, u \in DashUsers :
          dashboard = [DashboardAbsent EXCEPT !.mounted = TRUE, !.geoSupported = g, !.backend = b, !.users = u]

DashNext ==
    \/ DashMountEffects
    \/ \E p \in DashPositions : DashPosSuccess(p)
    \/ DashPosError
    \/ DashRunEffect
    \/ \E l \in dashboard.listeners : DashIssuesSnapshot(l)
    \/ \E l \in dashboard.listeners : DashIssuesError(l)
    \/ \E l \in dashboard.listeners : DashUsersSnapshot(l)
    \/ \E l \in dashboard.listeners : DashUsersError(l)
    \/ DashUnmount

DashSpec == DashInit /\ [][DashNext]_vars

\* C27: with a fixed user position and an unchanging backend the page stays
\* subscribed: a delivered issues snapshot whose nearby issues are the ones
\* the page already lists schedules no re-run of the subscribing effect (no
\* unsubscribe and resubscribe after each snapshot).
C27_SnapshotKeepsSubscription ==
    [][ \A l \in dashboard.listeners :
          ( /\ DashIssuesSnapshot(l)
            /\ ~DashEffectPending
            /\ dashboard'.localIssues = dashboard.localIssues )
          => ~DashEffectPending' ]_vars

\* ====================================== MyReportsPage (/dashboard/my-reports)
\* The model lets the page start at most MaxDeletes delete requests.
MaxDeletes == 3

\* A document of the user's reports: its id and createdAt as a time, or null
\* while the server timestamp is pending.
ReportDoc(id, createdAt) == [id |-> id, createdAt |-> createdAt]

ReportBackends ==
    { <<>>,
      <<ReportDoc("x", Num(2))>>,
      <<ReportDoc("x", Num(1)), ReportDoc("y", Num(2))>>,
      <<ReportDoc("x", Num(2)), ReportDoc("y", Null), ReportDoc("z", Num(2))>> }

ReportUsers == { Null, Str("u1") }

ToastFetchError == Str("Could not fetch your reports. Please try again later.")
ToastDeleted == Str("Report Deleted")
ToastDeleteFailed == Str("Failed to delete the report. Please try again.")

\* a.createdAt?.toDate() ?? new Date(0), as a time.
CreatedTime(issue) == IF NotNullish(issue.createdAt) THEN issue.createdAt.v ELSE 0

\* userIssues.sort((a, b) => dateB.getTime() - dateA.getTime()): stable,
\* newest first.
RECURSIVE SortByCreated(_)
SortByCreated(is) ==
    IF is = <<>> THEN <<>>
    ELSE LET k == CHOOSE i \in 1 .. Len(is) :
                      /\ \A j \in 1 .. Len(is) : CreatedTime(is[j]) <= CreatedTime(is[i])
                      /\ \A j \in 1 .. (i - 1) : CreatedTime(is[j]) < CreatedTime(is[i])
         IN <<is[k]>> \o SortByCreated(SubSeq(is, 1, k - 1) \o SubSeq(is, k + 1, Len(is)))

\* deleteDoc requests that the server has not answered yet.
PendingDeletes(r) == { k \in 1 .. Len(r.requests) : r.requests[k].state = "pending" }

\* What the listener's query returns: the server's documents without those
\* a pending delete has removed locally (Firestore applies a write to the
\* local view at once).
LocalView(r) ==
    SelectSeq(r.backend, LAMBDA d : \A k \in PendingDeletes(r) : r.requests[k].id # d.id)

\* A step of the page: the listener is told when the local view changed.
ReportsStep(r) ==
    /\ myReports' = IF r.listener = "attached" /\ LocalView(r) # LocalView(myReports)
                    THEN [r EXCEPT !.snapshotDue = TRUE] ELSE r
    /\ UNCHANGED <<mapVars, dashboard, reportForm, layout>>

\* The effect `useEffect(() => {...}, [user, toast])` after the first render:
\* without a user it returns at once, otherwise it attaches the listener.
ReportsMountEffect ==
    /\ myReports.mounted
    /\ myReports.listener = "none"
    /\ ReportsStep(IF Truthy(myReports.user)
                   THEN [myReports EXCEPT !.listener = "attached", !.snapshotDue = TRUE, !.toast = Undefined]
                   ELSE [myReports EXCEPT !.listener = "no user", !.toast = Undefined])

\* The listener's onNext.
ReportsSnapshot ==
    /\ myReports.mounted
    /\ myReports.listener = "attached"
    /\ myReports.snapshotDue
    /\ ReportsStep([myReports EXCEPT !.issues = SortByCreated(LocalView(myReports)), !.loading = FALSE,
                                     !.snapshotDue = FALSE, !.toast = Undefined])

\* The listener's onError.
ReportsListenError ==
    /\ myReports.mounted
    /\ myReports.listener = "attached"
    /\ ReportsStep([myReports EXCEPT !.listener = "failed", !.snapshotDue = FALSE, !.loading = FALSE,
                                     !.toast = ToastFetchError])

\* handleDelete(issueId) up to its await, from the dialog of a listed report
\* whose delete button is enabled.
HandleDelete(id) ==
    /\ myReports.mounted
    /\ ~myReports.loading
    /\ \E i \in 1 .. Len(myReports.issues) : myReports.issues[i].id = id
    /\ myReports.isDeleting # Str(id)
    /\ Len(myReports.requests) < MaxDeletes
    /\ ReportsStep([myReports EXCEPT !.isDeleting = Str(id),
                                     !.requests = Append(@, [id |-> id, state |-> "pending"]),
                                     !.toast = Undefined])

\* handleDelete after its await: deleteDoc resolved (ok) or rejected; the
\* toast, then `finally { setIsDeleting(null) }`.
DeleteSettled(k, ok) ==
    /\ k \in PendingDeletes(myReports)
    /\ LET id == myReports.requests[k].id
           r1 == [myReports EXCEPT !.requests[k].state = IF ok THEN "deleted" ELSE "failed",
                                   !.backend = IF ok THEN SelectSeq(@, LAMBDA d : d.id # id) ELSE @,
                                   !.toast = IF ok THEN ToastDeleted ELSE ToastDeleteFailed]
       IN ReportsStep(IF myReports.mounted THEN [r1 EXCEPT !.isDeleting = Null] ELSE r1)

\* The page is left: the listener is detached and the hooks' state discarded;
\* requests in flight stay in flight.
ReportsUnmount ==
    /\ myReports.mounted
    /\ ReportsStep([MyReportsAbsent EXCEPT !.backend = myReports.backend, !.requests = myReports.requests,
                                           !.user = myReports.user])

ReportsInit ==
    /\ MapViewAbsent
    /\ dashboard = DashboardAbsent
    /\ reportForm = ReportFormAbsent
    /\ layout = LayoutAbsent
    /\ \E u \in ReportUsers, b \in ReportBackends :
          myReports = [MyReportsAbsent EXCEPT !.mounted = TRUE, !.user = u, !.backend = b]

ReportsNext ==
    \/ ReportsMountEffect
    \/ ReportsSnapshot
    \/ ReportsListenError
    \/ \E id \in {"x", "y", "z"} : HandleDelete(id)
    \/ \E k \in 1 .. Len(myReports.requests), ok \in BOOLEAN : DeleteSettled(k, ok)
    \/ ReportsUnmount

ReportsSpec == ReportsInit /\ [][ReportsNext]_vars

\* C28: while a delete request for report X is in flight, the deleting marker
\* names X (X's delete button is disabled), in every interleaving of delete
\* requests on different reports and their completions.
C28_MarkerNamesReportInFlight ==
    myReports.mounted =>
        \A k \in PendingDeletes(myReports) : myReports.isDeleting = Str(myReports.requests[k].id)

\* ========================================= ReportForm (/dashboard/report)
\* The model lets the form's submit handler be started at most MaxSubmits times.
MaxSubmits == 2

FormUsers == { Null, [t |-> "obj", uid |-> "u1"] }
FormProfiles == { Null, [t |-> "obj", name |-> Str("")], [t |-> "obj", name |-> Str("Asha")] }

\* What the ImgBB request may come to: fetch rejects, or a response with its
\* `ok` flag and the `success` and `data.url` of its JSON body.
NetworkError == [t |-> "network error"]
ImgBBResponse(ok, success, url) == [t |-> "response", ok |-> ok, success |-> success, url |-> url]
PhotoUrl == Str("https://i.ibb.co/photo.jpg")
UploadAnswers ==
    { NetworkError,
      ImgBBResponse(FALSE, FALSE, Undefined),
      ImgBBResponse(TRUE, FALSE, PhotoUrl),
      ImgBBResponse(TRUE, TRUE, Str("")),
      ImgBBResponse(TRUE, TRUE, PhotoUrl) }

ToastAuthError == Str("Authentication Error")
ToastUploading == Str("Uploading your photo.")
ToastSaving == Str("Saving your report.")
ToastSuccess == Str("Success!")
ToastSubmissionFailed == Str("Submission Failed")

\* uploadPhotoToImgBB(photoFile): the URL of the uploaded photo, or null
\* after any failure (each is caught and answered with a toast).
UploadPhotoToImgBB(answer) ==
    IF answer = NetworkError THEN Null
    ELSE IF ~answer.ok THEN Null
    ELSE IF answer.success /\ Truthy(answer.url) THEN answer.url
    ELSE Null

\* The document onSubmit hands to addDoc, as written by execution e.
NewIssue(e, x) ==
    [exec |-> e, userId |-> x.user.uid,
     userName |-> IF Truthy(x.userProfile.name) THEN x.userProfile.name ELSE Str("Anonymous"),
     photoUrl |-> x.photoUrl, status |-> "pending"]

FormStep(f) ==
    /\ reportForm' = f
    /\ UNCHANGED <<mapVars, dashboard, myReports, layout>>

\* State setters of an unmounted form do nothing.
SetIsSubmitting(f, v) == IF f.mounted THEN [f EXCEPT !.isSubmitting = v] ELSE f

\* onSubmit(values) up to its first await.  The handler holds the user and
\* the profile of the render it was created in.
FormSubmit ==
    /\ reportForm.mounted
    /\ Len(reportForm.execs) < MaxSubmits
    /\ LET x == [pc |-> "uploading", user |-> reportForm.user, userProfile |-> reportForm.userProfile,
                 photoUrl |-> Undefined, navigated |-> FALSE]
       IN FormStep(IF ~Truthy(reportForm.user) \/ ~Truthy(reportForm.userProfile)
                   THEN [reportForm EXCEPT !.execs = Append(@, [x EXCEPT !.pc = "done"]), !.toast = ToastAuthError]
                   ELSE [reportForm EXCEPT !.execs = Append(@, x), !.isSubmitting = TRUE, !.toast = ToastUploading])

\* Mutant of FormUploadAnswered: the result of the upload is not tested.
FormUploadAnsweredUnchecked(e, answer) ==
    /\ e \in 1 .. Len(reportForm.execs)
    /\ reportForm.execs[e].pc = "uploading"
    /\ LET url == UploadPhotoToImgBB(answer)
           x == [reportForm.execs[e] EXCEPT !.photoUrl = url]
       IN FormStep([reportForm EXCEPT !.execs[e] = [x EXCEPT !.pc = "saving"],
                                      !.writes = Append(@, NewIssue(e, x)),
                                      !.toast = ToastSaving])

\* onSubmit from the return of uploadPhotoToImgBB to the next await: without
\* a URL it throws, the catch shows a toast and the finally resets
\* isSubmitting; with a URL it calls addDoc.
FormUploadAnswered(e, answer) ==
    /\ e \in 1 .. Len(reportForm.execs)
    /\ reportForm.execs[e].pc = "uploading"
    /\ LET url == UploadPhotoToImgBB(answer)
           x == [reportForm.execs[e] EXCEPT !.photoUrl = url]
       IN FormStep(IF ~Truthy(url)
                   THEN SetIsSubmitting([reportForm EXCEPT !.execs[e] = [x EXCEPT !.pc = "done"],
                                                           !.toast = ToastSubmissionFailed], FALSE)
                   ELSE [reportForm EXCEPT !.execs[e] = [x EXCEPT !.pc = "saving"],
                                           !.writes = Append(@, NewIssue(e, x)),
                                           !.toast = ToastSaving])

\* onSubmit after `await addDoc(...)`: resolved (ok) it shows the success
\* toast, starts the routing flow and pushes /dashboard/my-reports; rejected
\* it shows the failure toast; the finally resets isSubmitting.
FormAddDocSettled(e, ok) ==
    /\ e \in 1 .. Len(reportForm.execs)
    /\ reportForm.execs[e].pc = "saving"
    /\ FormStep(SetIsSubmitting(
           IF ok
           THEN [reportForm EXCEPT !.execs[e].pc = "done", !.execs[e].navigated = TRUE,
                                   !.route = "/dashboard/my-reports", !.toast = ToastSuccess]
           ELSE [reportForm EXCEPT !.execs[e].pc = "done", !.toast = ToastSubmissionFailed],
           FALSE))

\* useAuth() returns another user or profile (sign-in, sign-out, profile loaded).
FormAuthChange(u, p) ==
    /\ reportForm.mounted
    /\ <<u, p>> # <<reportForm.user, reportForm.userProfile>>
    /\ FormStep([reportForm EXCEPT !.user = u, !.userProfile = p, !.toast = Undefined])

\* The form is left; executions of onSubmit that are waiting go on.
FormUnmount ==
    /\ reportForm.mounted
    /\ FormStep([ReportFormAbsent EXCEPT !.execs = reportForm.execs, !.writes = reportForm.writes,
                                         !.route = reportForm.route])

FormInit ==
    /\ MapViewAbsent
    /\ dashboard = DashboardAbsent
    /\ myReports = MyReportsAbsent
    /\ layout = LayoutAbsent
    /\ \E u \in FormUsers, p \in FormProfiles :
          reportForm = [ReportFormAbsent EXCEPT !.mounted = TRUE, !.user = u, !.userProfile = p]

FormNext ==
    \/ FormSubmit
    \/ \E e \in 1 .. Len(reportForm.execs), answer \in UploadAnswers : FormUploadAnswered(e, answer)
    \/ \E e \in 1 .. Len(reportForm.execs), ok \in BOOLEAN : FormAddDocSettled(e, ok)
    \/ \E u \in FormUsers, p \in FormProfiles : FormAuthChange(u, p)
    \/ FormUnmount

FormSpec == FormInit /\ [][FormNext]_vars

\* The addDoc calls of execution e.
WritesOf(e) == SelectSeq(reportForm.writes, LAMBDA w : w.exec = e)

\* C29: every execution of the form's submit hands at most one issue document
\* to addDoc, and only with the URL the photo upload returned, for a signed-in
\* user with a profile; an execution that found the user or the profile
\* missing, or whose upload failed, wrote no document and pushed no route; and
\* when no execution is under way the form is not in the submitting state.
C29_SubmitWritesOnceAfterUpload ==
    /\ \A e \in 1 .. Len(reportForm.execs) :
          LET x == reportForm.execs[e]
          IN /\ Len(WritesOf(e)) <= 1
             /\ Len(WritesOf(e)) = 1 =>
                   /\ Truthy(x.user) /\ Truthy(x.userProfile)
                   /\ Truthy(x.photoUrl) /\ WritesOf(e)[1].photoUrl = x.photoUrl
             /\ (x.pc = "done" /\ (~Truthy(x.user) \/ ~Truthy(x.userProfile) \/ ~Truthy(x.photoUrl)))
                   => (Len(WritesOf(e)) = 0 /\ ~x.navigated)
    /\ (\A e \in 1 .. Len(reportForm.execs) : reportForm.execs[e].pc = "done") => ~reportForm.isSubmitting

\* One execution ended by a failed upload, another turned away for a missing
\* profile or user, the form still on screen.
C29_FailedUploadAndNoProfile ==
    /\ reportForm.mounted
    /\ \E e \in 1 .. Len(reportForm.execs) :
          LET x == reportForm.execs[e] IN x.pc = "done" /\ Truthy(x.user) /\ x.photoUrl = Null
    /\ \E e \in 1 .. Len(reportForm.execs) :
          LET x == reportForm.execs[e] IN x.pc = "done" /\ ~Truthy(x.userProfile)

\* ============================================ DashboardLayout (/dashboard/*)
\* What useAuth() may return: the auth provider is an external collaborator.
LayoutUsers == { Null, [t |-> "obj", uid |-> "u1"], [t |-> "obj", uid |-> "u2"] }

\* Mutant of LayoutRender: the loader is shown only while auth is loading.
LayoutRenderWhileLoadingOnly ==
    LET gate == layout.loading
    IN [loader |-> layout.mounted /\ gate,
        children |-> layout.mounted /\ ~gate,
        sidebar |-> layout.mounted /\ ~gate /\ ~layout.isMobile,
        bottomNav |-> layout.mounted /\ ~gate /\ layout.isMobile]

\* What the layout renders: `if (loading || !user) return <Loader2/>`, else
\* the shell with {children}.
LayoutRender ==
    LET gate == layout.loading \/ ~Truthy(layout.user)
    IN [loader |-> layout.mounted /\ gate,
        children |-> layout.mounted /\ ~gate,
        sidebar |-> layout.mounted /\ ~gate /\ ~layout.isMobile,
        bottomNav |-> layout.mounted /\ ~gate /\ layout.isMobile]

\* Dependency list of the effect, [user, loading, router]; the router is stable.
LayoutDeps == [t |-> "deps", user |-> layout.user, loading |-> layout.loading]

LayoutEffectPending == layout.mounted /\ layout.effDeps # LayoutDeps

LayoutStep(l) ==
    /\ layout' = l
    /\ UNCHANGED <<mapVars, dashboard, myReports, reportForm>>

\* The effect: `if (!loading && !user) router.push("/")`.
LayoutRunEffect ==
    /\ LayoutEffectPending
    /\ LayoutStep(IF ~layout.loading /\ ~Truthy(layout.user)
                  THEN [layout EXCEPT !.effDeps = LayoutDeps, !.route = "/", !.push = Str("/")]
                  ELSE [layout EXCEPT !.effDeps = LayoutDeps, !.push = Undefined])

\* useAuth() returns other values: loading ends, a user signs in or out.
LayoutAuthChange(l, u) ==
    /\ <<l, u>> # <<layout.loading, layout.user>>
    /\ LayoutStep([layout EXCEPT !.loading = l, !.user = u, !.push = Undefined])

\* useIsMobile() changes.
LayoutResize ==
    /\ layout.mounted
    /\ LayoutStep([layout EXCEPT !.isMobile = ~@, !.push = Undefined])

\* The route "/" is outside the layout: once it is shown the layout is unmounted.
LayoutUnmount ==
    /\ layout.mounted
    /\ layout.route = "/"
    /\ LayoutStep([LayoutAbsent EXCEPT !.loading = layout.loading, !.user = layout.user, !.route = layout.route])

\* The user opens a dashboard route again: a new instance of the layout.
LayoutMount ==
    /\ ~layout.mounted
    /\ LayoutStep([layout EXCEPT !.mounted = TRUE, !.route = "/dashboard", !.push = Undefined])

\* The application at "/", before a dashboard route is opened.
LayoutInit ==
    /\ MapViewAbsent
    /\ dashboard = DashboardAbsent
    /\ myReports = MyReportsAbsent
    /\ reportForm = ReportFormAbsent
    /\ \E l \in BOOLEAN, u \in LayoutUsers :
          layout = [LayoutAbsent EXCEPT !.loading = l, !.user = u, !.route = "/"]

LayoutNext ==
    \/ LayoutRunEffect
    \/ \E l \in BOOLEAN, u \in LayoutUsers : LayoutAuthChange(l, u)
    \/ LayoutResize
    \/ LayoutUnmount
    \/ LayoutMount

LayoutSpec == LayoutInit /\ [][LayoutNext]_vars

\* C30: the layout never renders its children while authentication is
\* loading or no user is signed in; and whenever loading has finished with no
\* user, the effect that ran for that state has pushed the route "/".
C30_ChildrenOnlyWhenSignedIn ==
    /\ LayoutRender.children => (~layout.loading /\ Truthy(layout.user))
    /\ (layout.mounted /\ ~layout.loading /\ ~Truthy(layout.user) /\ ~LayoutEffectPending)
          => layout.route = "/"

\* Loading has finished with no user, the effect has run and the redirect is issued.
C30_RedirectedWithoutUser ==
    /\ layout.mounted
    /\ ~layout.loading
    /\ ~Truthy(layout.user)
    /\ layout.push = Str("/")
    /\ LayoutRender.loader

=============================================================================
